---- MODULE Spec2Model ----
(***************************************************************************)
(* A model of cromulent/extract.py: the dimension pattern cascade, the     *)
(* measurement parser, the dimension normalizer and the monetary           *)
(* extractor.                                                              *)
(*                                                                         *)
(* Python strings are sequences of one-character strings.  Python's None   *)
(* is the record None; a value that may be None is wrapped by Some.        *)
(* Floats are exact decimals held as integers scaled by 10^FracDigits.     *)
(***************************************************************************)
EXTENDS Integers, Sequences, FiniteSets, TLC

None == [some |-> FALSE]
Some(x) == [some |-> TRUE, val |-> x]

(***************************************************************************)
(* Character classes of Python's re module, cut to the characters the      *)
(* model's inputs are written with.                                        *)
(***************************************************************************)
Digits == {"0", "1", "2", "3", "4", "5", "6", "7", "8", "9"}
Whitespace == {" ", "\t"}
LowerLetters == <<"a", "b", "c", "d", "e", "f", "g", "h", "i", "j", "k", "l", "m",
                  "n", "o", "p", "q", "r", "s", "t", "u", "v", "w", "x", "y", "z">>
UpperLetters == <<"A", "B", "C", "D", "E", "F", "G", "H", "I", "J", "K", "L", "M",
                  "N", "O", "P", "Q", "R", "S", "T", "U", "V", "W", "X", "Y", "Z">>
Range(f) == {f[i] : i \in DOMAIN f}
WordChars == Range(LowerLetters) \cup Range(UpperLetters) \cup Digits \cup {"_"}

(***************************************************************************)
(* String methods.                                                         *)
(***************************************************************************)
RECURSIVE Concat(_)
Concat(ss) == IF ss = <<>> THEN <<>> ELSE Head(ss) \o Concat(Tail(ss))

StartsWith(s, pre) == Len(pre) <= Len(s) /\ SubSeq(s, 1, Len(pre)) = pre

StartsAt(s, i, sub) == i + Len(sub) - 1 <= Len(s) /\ SubSeq(s, i, i + Len(sub) - 1) = sub

Contains(s, sub) == \E i \in 1..(Len(s) + 1) : StartsAt(s, i, sub)

\* str.replace(old, new): every non-overlapping occurrence, left to right.
RECURSIVE Replace(_, _, _)
Replace(s, old, new) ==
    IF s = <<>> THEN <<>>
    ELSE IF StartsWith(s, old) THEN new \o Replace(SubSeq(s, Len(old) + 1, Len(s)), old, new)
    ELSE <<Head(s)>> \o Replace(Tail(s), old, new)

RECURSIVE LStrip(_)
LStrip(s) == IF s # <<>> /\ Head(s) \in Whitespace THEN LStrip(Tail(s)) ELSE s

RECURSIVE RStrip(_)
RStrip(s) ==
    IF s # <<>> /\ s[Len(s)] \in Whitespace THEN RStrip(SubSeq(s, 1, Len(s) - 1)) ELSE s

Strip(s) == RStrip(LStrip(s))

LowerChar(c) ==
    IF \E i \in DOMAIN UpperLetters : UpperLetters[i] = c
    THEN LowerLetters[CHOOSE i \in DOMAIN UpperLetters : UpperLetters[i] = c]
    ELSE c

Lower(s) == [i \in DOMAIN s |-> LowerChar(s[i])]

(***************************************************************************)
(* A backtracking matcher for the regular expressions of the module.  A    *)
(* match state is the position of the next character and the spans of the  *)
(* tracked groups; Match returns the states a pattern can end in, in the   *)
(* order backtracking tries them.                                          *)
(***************************************************************************)
Lit(s) == [k |-> "lit", s |-> s]
Cls(c) == [k |-> "cls", c |-> c]
Cat(rs) == [k |-> "cat", rs |-> rs]
Alt(rs) == [k |-> "alt", rs |-> rs]
Opt(r) == [k |-> "opt", r |-> r]
Plus(r) == [k |-> "plus", r |-> r]
Star(r) == Opt(Plus(r))
Grp(n, r) == [k |-> "grp", n |-> n, r |-> r]
NotAfter(c) == [k |-> "nlb", c |-> c]

RECURSIVE Dedup(_, _)
Dedup(seen, sts) ==
    IF sts = <<>> THEN seen
    ELSE IF \E i \in DOMAIN seen : seen[i] = Head(sts) THEN Dedup(seen, Tail(sts))
    ELSE Dedup(Append(seen, Head(sts)), Tail(sts))

\* The states ends with group n set to the text matched since from.
SetGroup(ends, n, s, from) ==
    [i \in DOMAIN ends |-> [ends[i] EXCEPT !.g[n] = Some(SubSeq(s, from, ends[i].p - 1))]]

First(sts) == IF sts = <<>> THEN None ELSE Some(Head(sts))

RECURSIVE Match(_, _, _)
RECURSIVE MatchEach(_, _, _)
RECURSIVE MatchCat(_, _, _, _)
RECURSIVE MatchAlt(_, _, _, _)
RECURSIVE MatchMore(_, _, _, _)

\* The states r ends in from each state of sts, in order.
MatchEach(r, s, sts) ==
    IF sts = <<>> THEN <<>> ELSE Match(r, s, Head(sts)) \o MatchEach(r, s, Tail(sts))

MatchCat(rs, i, s, sts) ==
    IF i > Len(rs) \/ sts = <<>> THEN sts
    ELSE MatchCat(rs, i + 1, s, Dedup(<<>>, MatchEach(rs[i], s, sts)))

MatchAlt(rs, i, s, st) ==
    IF i > Len(rs) THEN <<>> ELSE Match(rs[i], s, st) \o MatchAlt(rs, i + 1, s, st)

\* Greedy repetition: after one more match of r, first try to go on.
MatchMore(r, s, from, ends) ==
    IF ends = <<>> THEN <<>>
    ELSE (IF Head(ends).p > from THEN Match(Plus(r), s, Head(ends)) ELSE <<>>)
         \o <<Head(ends)>> \o MatchMore(r, s, from, Tail(ends))

Match(r, s, st) ==
    CASE r.k = "lit" ->
            IF StartsAt(s, st.p, r.s) THEN <<[st EXCEPT !.p = @ + Len(r.s)]>> ELSE <<>>
      [] r.k = "cls" ->
            IF st.p <= Len(s) /\ s[st.p] \in r.c THEN <<[st EXCEPT !.p = @ + 1]>> ELSE <<>>
      [] r.k = "nlb" ->
            IF st.p > 1 /\ s[st.p - 1] \in r.c THEN <<>> ELSE <<st>>
      [] r.k = "cat" -> MatchCat(r.rs, 1, s, <<st>>)
      [] r.k = "alt" -> Dedup(<<>>, MatchAlt(r.rs, 1, s, st))
      [] r.k = "opt" -> Dedup(<<>>, Match(r.r, s, st) \o <<st>>)
      [] r.k = "plus" -> Dedup(<<>>, MatchMore(r.r, s, st.p, Match(r.r, s, st)))
      [] r.k = "grp" ->
            IF r.n \in DOMAIN st.g THEN SetGroup(Match(r.r, s, st), r.n, s, st.p)
            ELSE Match(r.r, s, st)

\* pattern.match(value, pos): the first way to match at pos, its groups and end.
ReMatchAt(r, groups, s, pos) ==
    First(Match(r, s, [p |-> pos, g |-> [n \in groups |-> None]]))

ReMatch(r, groups, s) == ReMatchAt(r, groups, s, 1)

\* re.finditer(pattern, value): the successive non-overlapping matches.
RECURSIVE FindIter(_, _, _, _)
RECURSIVE FindNext(_, _, _, _, _)
FindIter(r, groups, s, pos) ==
    IF pos > Len(s) THEN <<>> ELSE FindNext(r, groups, s, pos, ReMatchAt(r, groups, s, pos))

\* m is the match at pos, or None.
FindNext(r, groups, s, pos, m) ==
    IF m.some
    THEN <<m.val.g>> \o FindIter(r, groups, s, IF m.val.p > pos THEN m.val.p ELSE pos + 1)
    ELSE FindIter(r, groups, s, pos + 1)

(***************************************************************************)
(* The patterns.                                                           *)
(***************************************************************************)
Ws == Cls(Whitespace)
Digit == Cls(Digits)

number_pattern ==
    Alt(<<Cat(<<Plus(Digit), Plus(Ws), Plus(Digit), Lit(<<"/">>), Plus(Digit)>>),
          Cat(<<Plus(Digit), Opt(Cat(<<Cls({".", ","}), Plus(Digit)>>))>>)>>)

unit_pattern ==
    Alt(<<Lit(<<"'">>), Lit(<<"\"">>),
          Cat(<<Lit(<<"d">>), Opt(Lit(<<".">>))>>),
          Lit(<<"d", "u", "y", "m", "e", "n">>),
          Cat(<<Lit(<<"p", "o", "u", "c", "e">>), Opt(Lit(<<"s">>))>>),
          Lit(<<"i", "n", "c", "h", "e", "s">>),
          Lit(<<"i", "n", "c", "h">>),
          Cat(<<Lit(<<"i", "n">>), Opt(Lit(<<".">>))>>),
          Cat(<<Lit(<<"p", "i", "e", "d">>), Opt(Lit(<<"s">>))>>),
          Cat(<<Lit(<<"v">>), Opt(Lit(<<".">>))>>),
          Lit(<<"v", "o", "e", "t", "e", "n">>),
          Lit(<<"f", "e", "e", "t">>),
          Lit(<<"f", "o", "o", "t">>),
          Cat(<<Lit(<<"f", "t">>), Opt(Lit(<<".">>))>>),
          Lit(<<"c", "m">>)>>)

dimension_pattern ==
    Grp("dim", Cat(<<Grp("number", number_pattern), Star(Ws), Opt(Grp("unit", unit_pattern))>>))

dimension_re == Cat(<<Star(Ws), dimension_pattern>>)

simple_width_height_pattern ==
    Opt(Cat(<<Star(Ws),
              Alt(<<Cat(<<NotAfter(WordChars), Cls({"w", "h"})>>),
                    Lit(<<"w", "i", "d", "t", "h">>),
                    Lit(<<"h", "e", "i", "g", "h", "t">>)>>)>>))

simple_dimensions_re_x1 ==
    Cat(<<Grp("d1", Plus(Cat(<<dimension_pattern, Star(Ws)>>))),
          Grp("d1w", simple_width_height_pattern)>>)

simple_dimensions_re_x2 ==
    Cat(<<Grp("d1", Plus(Cat(<<dimension_pattern, Star(Ws)>>))),
          Grp("d1w", simple_width_height_pattern),
          Opt(Lit(<<",">>)), Star(Ws),
          Alt(<<Lit(<<"x">>), Lit(<<"b", "y">>)>>),
          Grp("d2", Plus(Cat(<<Star(Ws), dimension_pattern>>))),
          Grp("d2w", simple_width_height_pattern)>>)

french_dimensions_re ==
    Cat(<<Cls({"H", "h"}), Lit(<<"a", "u", "t">>), Opt(Lit(<<"e", "u", "r">>)), Lit(<<" ">>),
          Grp("d1", Plus(Cat(<<dimension_pattern, Star(Ws)>>))),
          Lit(<<",", " ">>),
          Cls({"L", "l"}), Lit(<<"a", "r", "g", "e">>), Opt(Lit(<<"u", "r">>)), Lit(<<" ">>),
          Grp("d2", Plus(Cat(<<dimension_pattern, Star(Ws)>>)))>>)

dutch_marker ==
    Alt(<<Cat(<<Cls({"H", "h"}), Lit(<<"o", "o", "g">>), Opt(Lit(<<"h">>)), Opt(Lit(<<".">>))>>),
          Cat(<<Cls({"B", "b"}), Lit(<<"r", "e", "e", "d">>), Opt(Lit(<<"t">>))>>)>>)

dutch_dimensions_re ==
    Cat(<<Grp("d1w", dutch_marker), Lit(<<" ">>),
          Grp("d1", Plus(Cat(<<dimension_pattern, Star(Ws)>>))),
          Lit(<<",", " ">>),
          Grp("d2w", dutch_marker), Lit(<<" ">>),
          Grp("d2", Plus(Cat(<<dimension_pattern, Star(Ws)>>)))>>)

(***************************************************************************)
(* float() and str() on the decimal strings the parser produces.  A float  *)
(* is an integer count of 10^-FracDigits.                                  *)
(***************************************************************************)
FracDigits == 3
Scale == 10 ^ FracDigits

ValueError == [some |-> FALSE, exc |-> "ValueError"]

DigitChars == <<"0", "1", "2", "3", "4", "5", "6", "7", "8", "9">>
DigitVal(c) == (CHOOSE i \in DOMAIN DigitChars : DigitChars[i] = c) - 1

IsDigits(s) == \A i \in DOMAIN s : s[i] \in Digits

RECURSIVE NatOf(_)
NatOf(s) == IF s = <<>> THEN 0 ELSE 10 * NatOf(SubSeq(s, 1, Len(s) - 1)) + DigitVal(s[Len(s)])

RECURSIVE NatStr(_)
NatStr(n) == IF n < 10 THEN <<DigitChars[n + 1]>> ELSE NatStr(n \div 10) \o <<DigitChars[(n % 10) + 1]>>

RECURSIVE PadRight(_, _)
PadRight(s, n) == IF Len(s) >= n THEN SubSeq(s, 1, n) ELSE PadRight(Append(s, "0"), n)

RECURSIVE PadLeft(_, _)
PadLeft(s, n) == IF Len(s) >= n THEN s ELSE PadLeft(<<"0">> \o s, n)

RECURSIVE TrimZeros(_)
TrimZeros(s) == IF Len(s) > 1 /\ s[Len(s)] = "0" THEN TrimZeros(SubSeq(s, 1, Len(s) - 1)) ELSE s

\* float(v): surrounding whitespace is ignored; digits with at most one point.
Float(v) ==
    LET t == Strip(v)
        dots == {i \in DOMAIN t : t[i] = "."}
        dot == IF dots = {} THEN Len(t) + 1 ELSE CHOOSE i \in dots : TRUE
        ip == SubSeq(t, 1, dot - 1)
        fp == SubSeq(t, dot + 1, Len(t))
    IN  IF Cardinality(dots) <= 1 /\ IsDigits(ip) /\ IsDigits(fp) /\ Len(ip) + Len(fp) > 0
        THEN Some(NatOf(ip) * Scale + NatOf(PadRight(fp, FracDigits)))
        ELSE ValueError

\* str(x) of a float: "123.0", "1.255".
FloatStr(x) == NatStr(x \div Scale) \o <<".">> \o TrimZeros(PadLeft(NatStr(x % Scale), FracDigits))

\* A Python number: an int (the literal 0) or a float.
IntZero == [f |-> FALSE, v |-> 0]
AddFloat(acc, y) == [f |-> TRUE, v |-> acc.v + y]
NumStr(n) == IF n.f THEN FloatStr(n.v) ELSE NatStr(n.v)

(***************************************************************************)
(* The measurement parser.                                                 *)
(***************************************************************************)
Dimension(value, unit, which) == [value |-> value, unit |-> unit, which |-> which]

_canonical_value(value) ==
    LET v1 == Replace(value, <<",">>, <<".">>)
        v2 == Replace(v1, <<" ", "1", "/", "4">>, <<".", "2", "5">>)
        v3 == Replace(v2, <<" ", "1", "/", "2">>, <<".", "5">>)
        v4 == Replace(v3, <<" ", "3", "/", "4">>, <<".", "7", "5">>)
    IN  IF Contains(v4, <<"/">>) THEN None
        ELSE IF StartsWith(v4, <<".">>) THEN Some(<<"0">> \o v4)
        ELSE Some(v4)

InchNames == {<<"p", "o", "u", "c", "e", "s">>, <<"p", "o", "u", "c", "e">>,
              <<"d", "u", "y", "m", "e", "n">>, <<"d", ".">>, <<"d">>}
FeetNames == {<<"p", "i", "e", "d", "s">>, <<"p", "i", "e", "d">>, <<"f", "e", "e", "t">>,
              <<"f", "o", "o", "t">>, <<"v", "o", "e", "t", "e", "n">>, <<"v", ".">>, <<"v">>}

\* The canonical unit name or None; the argument is m.group(3), a string or None.
_canonical_unit(value) ==
    IF ~value.some THEN None
    ELSE LET v == Lower(value.val)
         IN  IF Contains(v, <<"i", "n">>) \/ v \in InchNames \/ v = <<"\"">> THEN Some("inches")
             ELSE IF Contains(v, <<"f", "t">>) \/ v \in FeetNames \/ v = <<"'">> THEN Some("feet")
             ELSE IF Contains(v, <<"c", "m">>) THEN Some("cm")
             ELSE None

\* The axis hint is a string or None; the axis is "width", "height" or None.
_canonical_which(value) ==
    IF ~value.some \/ value.val = <<>> THEN None
    ELSE LET v == Lower(Strip(value.val))
         IN  IF StartsWith(v, <<"w">>) THEN Some(<<"w", "i", "d", "t", "h">>)
             ELSE IF StartsWith(v, <<"h">>) THEN Some(<<"h", "e", "i", "g", "h", "t">>)
             ELSE None

\* The loop of parse_simple_dimensions over the matches ms, from match i on.
RECURSIVE parse_loop(_, _, _, _)
parse_loop(ms, i, which, dims) ==
    IF i > Len(ms) THEN (IF dims = <<>> THEN None ELSE Some(dims))
    ELSE LET v == _canonical_value(ms[i].number.val)
             u == _canonical_unit(ms[i].unit)
             w == _canonical_which(which)
         IN  IF ~v.some \/ v.val = <<>> THEN None
             ELSE parse_loop(ms, i + 1, w, Append(dims, Dimension(v.val, u, w)))

parse_simple_dimensions(value, which) ==
    IF ~value.some THEN None
    ELSE parse_loop(FindIter(dimension_re, {"number", "unit"}, Strip(value.val), 1), 1, which, <<>>)


(***************************************************************************)
(* The dimension normalizer.                                               *)
(***************************************************************************)
Width == <<"w", "i", "d", "t", "h">>
Height == <<"h", "e", "i", "g", "h", "t">>

\* A foot taken for ten inches.
FeetAsTenInches(f) == 10 * f

\* What a value in feet adds to the inches sum.
FeetToInches(f) == 12 * f

\* The loop of normalize_dimension from dimension i on; acc holds the sums.
RECURSIVE normalize_loop(_, _, _)
normalize_loop(dimensions, i, acc) ==
    IF i > Len(dimensions) THEN Some(acc)
    ELSE LET d == dimensions[i]
             a == [acc EXCEPT !.which = d.which]
             f == Float(d.value)
         IN  IF d.unit \notin {Some("inches"), Some("feet"), Some("cm"), None} THEN None
             ELSE IF f = ValueError THEN ValueError
             ELSE normalize_loop(dimensions, i + 1,
                    CASE d.unit = Some("inches") -> [a EXCEPT !.inches = AddFloat(@, f.val)]
                      [] d.unit = Some("feet") -> [a EXCEPT !.inches = AddFloat(@, FeetToInches(f.val))]
                      [] d.unit = Some("cm") -> [a EXCEPT !.cm = AddFloat(@, f.val)]
                      [] d.unit = None -> [a EXCEPT !.unknown = AddFloat(@, f.val)])

\* Some(Dimension), None, or ValueError when float() raises.
normalize_dimension(dimensions) ==
    LET r == normalize_loop(dimensions, 1,
                 [unknown |-> IntZero, inches |-> IntZero, cm |-> IntZero, which |-> None])
    IN  IF ~r.some THEN r
        ELSE LET acc == r.val
                 used_systems == Cardinality({n \in {"inches", "cm", "unknown"} : acc[n].v # 0})
             IN  IF used_systems # 1 THEN None
                 ELSE IF acc.inches.v # 0
                 THEN Some(Dimension(NumStr(acc.inches), Some("inches"), acc.which))
                 ELSE IF acc.cm.v # 0
                 THEN Some(Dimension(NumStr(acc.cm), Some("cm"), acc.which))
                 ELSE Some(Dimension(NumStr(acc.cm), None, acc.which))

UnitLabel(d) ==
    CASE d.unit = Some("inches") -> d.value \o <<" ", "i", "n", "c", "h", "e", "s">>
      [] d.unit = Some("feet") -> d.value \o <<" ", "f", "e", "e", "t">>
      [] d.unit = Some("cm") -> d.value \o <<" ", "c", "m">>
      [] OTHER -> d.value

RECURSIVE Join(_, _)
Join(sep, ss) ==
    IF ss = <<>> THEN <<>>
    ELSE IF Len(ss) = 1 THEN ss[1]
    ELSE ss[1] \o sep \o Join(sep, Tail(ss))

\* Some([nd, label]), None, or ValueError.
DimensionObject(dimensions, nd) ==
    IF ~nd.some THEN nd
    ELSE Some([nd |-> nd.val,
               label |-> Join(<<",", " ">>, [i \in DOMAIN dimensions |-> UnitLabel(dimensions[i])])])

normalized_dimension_object(dimensions) ==
    DimensionObject(dimensions, normalize_dimension(dimensions))

(***************************************************************************)
(* The pattern matchers.  Each returns Some(<<group, ...>>) or None.       *)
(***************************************************************************)
\* "if d1 and d2: return (d1, d2)", and None otherwise.
BothGroups(d1, d2) == IF d1.some /\ d2.some THEN Some(<<d1.val, d2.val>>) ELSE None
OneGroup(d1) == IF d1.some THEN Some(<<d1.val>>) ELSE None

\* The body of french_dimensions_cleaner_x2 given the match m, or None.
french_groups(m) ==
    IF ~m.some THEN None
    ELSE BothGroups(parse_simple_dimensions(m.val.g.d1, Some(<<"h">>)),
                    parse_simple_dimensions(m.val.g.d2, Some(<<"w">>)))

french_dimensions_cleaner_x2(value) ==
    french_groups(ReMatch(french_dimensions_re, {"d1", "d2"}, value))

\* The axis hints without the swap for a "breed" marker.
dutch_axes_unswapped(d1w) == [h |-> <<"h">>, w |-> <<"w">>]

\* The axis hints h, w of the two groups, given the first marker.
dutch_axes(d1w) ==
    IF Contains(Lower(d1w), <<"b", "r", "e", "e", "d">>)
    THEN [h |-> <<"w">>, w |-> <<"h">>]
    ELSE [h |-> <<"h">>, w |-> <<"w">>]

dutch_groups(m) ==
    IF ~m.some THEN None
    ELSE BothGroups(parse_simple_dimensions(m.val.g.d1, Some(dutch_axes(m.val.g.d1w.val).h)),
                    parse_simple_dimensions(m.val.g.d2, Some(dutch_axes(m.val.g.d1w.val).w)))

dutch_dimensions_cleaner_x2(value) ==
    dutch_groups(ReMatch(dutch_dimensions_re, {"d1", "d1w", "d2", "d2w"}, value))

simple_groups_x1(m) ==
    IF ~m.some THEN None ELSE OneGroup(parse_simple_dimensions(m.val.g.d1, m.val.g.d1w))

simple_dimensions_cleaner_x1(value) ==
    simple_groups_x1(ReMatch(simple_dimensions_re_x1, {"d1", "d1w"}, value))

simple_groups_x2(m) ==
    IF ~m.some THEN None
    ELSE BothGroups(parse_simple_dimensions(m.val.g.d1, m.val.g.d1w),
                    parse_simple_dimensions(m.val.g.d2, m.val.g.d2w))

simple_dimensions_cleaner_x2(value) ==
    simple_groups_x2(ReMatch(simple_dimensions_re_x2, {"d1", "d1w", "d2", "d2w"}, value))

\* The list with the single-axis strategy ahead of the Dutch one.
cleaners_x1_before_dutch ==
    <<"simple_dimensions_cleaner_x2", "french_dimensions_cleaner_x2",
      "simple_dimensions_cleaner_x1", "dutch_dimensions_cleaner_x2">>

cleaners == <<"simple_dimensions_cleaner_x2", "french_dimensions_cleaner_x2",
              "dutch_dimensions_cleaner_x2", "simple_dimensions_cleaner_x1">>

CallCleaner(f, value) ==
    CASE f = "simple_dimensions_cleaner_x2" -> simple_dimensions_cleaner_x2(value)
      [] f = "french_dimensions_cleaner_x2" -> french_dimensions_cleaner_x2(value)
      [] f = "dutch_dimensions_cleaner_x2" -> dutch_dimensions_cleaner_x2(value)
      [] f = "simple_dimensions_cleaner_x1" -> simple_dimensions_cleaner_x1(value)

\* The loop of dimensions_cleaner from cleaner i on.  ret is what is
\* returned; calls lists, in order, each cleaner called and what it returned.
RECURSIVE cleaner_loop(_, _, _)
RECURSIVE cleaner_step(_, _, _, _)
cleaner_loop(value, i, calls) ==
    IF i > Len(cleaners) THEN [ret |-> None, calls |-> calls]
    ELSE cleaner_step(value, i, calls, CallCleaner(cleaners[i], value))

\* d is what cleaner i returned.
cleaner_step(value, i, calls, d) ==
    IF d.some THEN [ret |-> d, calls |-> Append(calls, [f |-> cleaners[i], d |-> d])]
    ELSE cleaner_loop(value, i + 1, Append(calls, [f |-> cleaners[i], d |-> d]))

dimensions_cleaner(value) ==
    IF ~value.some THEN [ret |-> None, calls |-> <<>>] ELSE cleaner_loop(value.val, 1, <<>>)

(***************************************************************************)
(* extract_physical_dimensions: the records the generator yields, and      *)
(* whether it ends by raising.                                             *)
(***************************************************************************)
DimRecord(d, label) ==
    [type |-> IF d.which = Some(Height) THEN "Height"
              ELSE IF d.which = Some(Width) THEN "Width"
              ELSE "PhysicalDimension",
     name |-> label, value |-> d.value, unit |-> d.unit]

RECURSIVE yield_loop(_, _, _)
RECURSIVE yield_step(_, _, _, _)
yield_loop(dimensions, i, yielded) ==
    IF i > Len(dimensions) THEN [yielded |-> yielded, raised |-> None]
    ELSE yield_step(dimensions, i, yielded, normalized_dimension_object(dimensions[i]))

yield_step(dimensions, i, yielded, dimdata) ==
    IF dimdata = ValueError THEN [yielded |-> yielded, raised |-> Some("ValueError")]
    ELSE IF ~dimdata.some THEN yield_loop(dimensions, i + 1, yielded)
    ELSE yield_loop(dimensions, i + 1,
                    Append(yielded, DimRecord(dimdata.val.nd, dimdata.val.label)))

\* The loop over the groups c.ret that dimensions_cleaner returned.
yield_all(c) ==
    IF c.ret.some THEN yield_loop(c.ret.val, 1, <<>>) ELSE [yielded |-> <<>>, raised |-> None]

ExtractResult(c, out) ==
    [dimensions |-> c.ret, calls |-> c.calls, yielded |-> out.yielded, raised |-> out.raised]

ExtractFrom(c) == ExtractResult(c, yield_all(c))

\* yielded and raised are what the caller sees; dimensions and calls are
\* the local value and the cleaners dimensions_cleaner called for it.
extract_physical_dimensions(dimstr) == ExtractFrom(dimensions_cleaner(dimstr))

(***************************************************************************)
(* extract_monetary_amount.  A record is a function from some of the keys  *)
(* to strings.                                                             *)
(***************************************************************************)
MAPPING ==
    << <<"österreichische schilling", "at shillings">>,
       <<"florins", "de florins">>,
       <<"fl", "de florins">>,
       <<"fl.", "de florins">>,
       <<"pounds", "gb pounds">>,
       <<"livres", "fr livres">>,
       <<"guineas", "gb guineas">>,
       <<"reichsmark", "de reichsmarks">> >>

\* vocab.instances, the registry of the vocabulary: the currencies it knows.
Instances == {"at shillings", "de florins", "gb pounds", "fr livres", "gb guineas",
              "de reichsmarks"}

\* data.get(key, default)
Get(data, key, default) == IF key \in DOMAIN data THEN Some(data[key]) ELSE default

\* Truth value of a string or None.  Amounts are held as character
\* sequences; currencies, notes and citations, which the code only looks
\* up or passes on, are held whole.
Truthy(v) == v.some /\ v.val # <<>>
TruthyWhole(v) == v.some /\ v.val # ""

MapCurrency(c) ==
    IF \E i \in DOMAIN MAPPING : MAPPING[i][1] = c
    THEN MAPPING[CHOOSE i \in DOMAIN MAPPING : MAPPING[i][1] = c][2]
    ELSE c

\* The amount part: the numeric value, the display name, and price_amount
\* as it stands afterwards (a float on success, else the text as given).
\* The label is held as the tuple of the parts '%s %s' formats.
AmountFields(price_amount) ==
    IF ~Truthy(price_amount) THEN [value |-> None, name |-> None, text |-> <<>>, truthy |-> FALSE]
    ELSE LET v1 == Replace(price_amount.val, <<"[", "?", "]">>, <<>>)
             v2 == Replace(v1, <<"?">>, <<>>)
             v == Strip(v2)
             f == Float(v)
         IN  IF f = ValueError
             THEN [value |-> None, name |-> price_amount, text |-> price_amount.val,
                   truthy |-> TRUE]
             ELSE [value |-> f, name |-> None, text |-> FloatStr(f.val), truthy |-> f.val # 0]

\* The branches with start_price tested ahead of est_price.
price_variant_start_first(data) ==
    IF "start_price" \in DOMAIN data THEN [type |-> "StartingPrice", prefix |-> "start_price"]
    ELSE IF "est_price" \in DOMAIN data THEN [type |-> "EstimatedPrice", prefix |-> "est_price"]
    ELSE [type |-> "MonetaryAmount", prefix |-> "price"]

\* The branch taken: the class of the result and the prefix of the keys read.
price_variant(data) ==
    IF "est_price" \in DOMAIN data THEN [type |-> "EstimatedPrice", prefix |-> "est_price"]
    ELSE IF "start_price" \in DOMAIN data THEN [type |-> "StartingPrice", prefix |-> "start_price"]
    ELSE [type |-> "MonetaryAmount", prefix |-> "price"]

extract_monetary_amount(data) ==
    LET type == price_variant(data).type
        Key(suffix) == price_variant(data).prefix \o suffix
        price_amount == Get(data, Key("_amount"), Get(data, Key(""), None))
        price_currency == Get(data, Key("_currency"), Get(data, Key("_curr"), None))
        note == Get(data, Key("_note"), Get(data, Key("_desc"), None))
        cite == Get(data, Key("_citation"), None)
        a == AmountFields(price_amount)
        currency == IF TruthyWhole(price_currency) THEN Some(MapCurrency(price_currency.val)) ELSE None
    IN  IF ~(Truthy(price_amount) \/ TruthyWhole(price_currency)) THEN None
        ELSE Some([type |-> type,
                   cite |-> IF TruthyWhole(cite) THEN cite ELSE None,
                   note |-> IF TruthyWhole(note) THEN note ELSE None,
                   value |-> a.value,
                   identified_by |-> a.name,
                   currency |-> IF currency.some /\ currency.val \in Instances
                                THEN currency ELSE None,
                   label |-> IF a.truthy /\ currency.some THEN Some(<<a.text, currency.val>>)
                             ELSE IF a.truthy THEN Some(<<a.text>>)
                             ELSE None])


(***************************************************************************)
(* The inputs of the calls.  A dimension string is written from a          *)
(* template and one or two groups of tokens; a token is a number and a     *)
(* unit.  An input keeps the pieces its string is written from.            *)
(***************************************************************************)
MaxTokens == 2
MaxDims == 2
MaxKeys == 2

PlainNumber(text) == [text |-> text, frac |-> None]
MixedFraction(whole, ws, num, den) ==
    [text |-> whole \o ws \o num \o <<"/">> \o den,
     frac |-> Some([whole |-> whole, ws |-> ws, num |-> num, den |-> den])]

Token(n, u) == [n |-> n, u |-> u]
TokenText(t) == t.n.text \o t.u
GroupText(g) == Join(<<" ">>, [i \in DOMAIN g |-> TokenText(g[i])])

FirstNumbers ==
    {PlainNumber(<<"0">>), PlainNumber(<<"2">>),
     MixedFraction(<<"1">>, <<" ">>, <<"1">>, <<"2">>),
     MixedFraction(<<"1">>, <<" ", " ">>, <<"1">>, <<"2">>),
     MixedFraction(<<"1">>, <<" ">>, <<"1">>, <<"3">>),
     MixedFraction(<<"1">>, <<" ">>, <<"1">>, <<"4", "5">>)}
FirstUnits == {<<>>, <<"c", "m">>, <<" ", "v", ".">>}
FirstTokens == {Token(n, u) : n \in FirstNumbers, u \in FirstUnits}
MoreTokens == {Token(PlainNumber(<<"6">>), <<" ", "d", ".">>)}

Groups ==
    UNION {{<<f>> \o m : f \in FirstTokens, m \in [1..(n - 1) -> MoreTokens]} : n \in 1..MaxTokens}

\* Of a two-group string, one group is one of these.
SmallGroups == {<<Token(PlainNumber(<<"2">>), <<" ", "c", "m">>)>>,
                <<Token(MixedFraction(<<"1">>, <<" ">>, <<"1">>, <<"3">>), <<" ", "i", "n">>)>>}

Template(name, pre, sep, post) == [name |-> name, pre |-> pre, sep |-> sep, post |-> post]
OneGroupTemplates ==
    {Template("single", <<>>, <<>>, <<>>),
     Template("single_w", <<>>, <<>>, <<" ", "w">>)}
TwoGroupTemplates ==
    {Template("plain", <<>>, <<" ", "x", " ">>, <<>>),
     Template("plain_hw", <<>>, <<" ", "h", " ", "b", "y", " ">>, <<" ", "w">>),
     Template("french", <<"H", "a", "u", "t", " ">>, <<",", " ", "l", "a", "r", "g", "e", " ">>, <<>>),
     Template("dutch_hoog_breed", <<"H", "o", "o", "g", ".", " ">>,
              <<",", " ", "B", "r", "e", "e", "d", " ">>, <<>>),
     Template("dutch_breedt_hoog", <<"B", "r", "e", "e", "d", "t", " ">>,
              <<",", " ", "h", "o", "o", "g", " ">>, <<>>),
     Template("dutch_hoog_hoog", <<"H", "o", "o", "g", " ">>,
              <<",", " ", "H", "o", "o", "g", " ">>, <<>>)}

\* The strings the documentation gives as examples.
HoogBreedExample ==
    [tmpl |-> Template("dutch_hoog_breed", <<"H", "o", "o", "g", ".", " ">>,
                       <<",", " ", "B", "r", "e", "e", "d", " ">>, <<>>),
     groups |-> << <<Token(PlainNumber(<<"1">>), <<" ", "v", ".">>),
                     Token(PlainNumber(<<"6">>), <<" ", "d", ".">>)>>,
                   <<Token(PlainNumber(<<"2">>), <<" ", "v", ".">>),
                     Token(PlainNumber(<<"3">>), <<" ", "d", ".">>)>> >>]
ExampleInputs ==
    {HoogBreedExample,
     [tmpl |-> Template("plain", <<>>, <<" ", "x", " ">>, <<>>),
      groups |-> << <<Token(PlainNumber(<<"1", "4">>), <<" ", "c", "m">>)>>,
                    <<Token(PlainNumber(<<"1", "0">>), <<" ", "c", "m">>)>> >>],
     [tmpl |-> Template("plain", <<>>, <<" ", "x", " ">>, <<>>),
      groups |-> << <<Token(PlainNumber(<<"1", "4">>), <<>>)>>,
                    <<Token(PlainNumber(<<"1", "0">>), <<>>)>> >>],
     [tmpl |-> Template("french", <<"H", "a", "u", "t", " ">>,
                        <<",", " ", "l", "a", "r", "g", "e", " ">>, <<>>),
      groups |-> << <<Token(PlainNumber(<<"1", "4">>), <<" ", "p", "o", "u", "c", "e", "s">>)>>,
                    <<Token(PlainNumber(<<"1", "0">>), <<" ", "p", "o", "u", "c", "e", "s">>)>> >>]}

DimInputs ==
    ExampleInputs
    \cup {[tmpl |-> t, groups |-> <<g>>] : t \in OneGroupTemplates, g \in Groups}
    \cup {[tmpl |-> t, groups |-> <<g1, g2>>] :
             t \in TwoGroupTemplates, g1 \in Groups, g2 \in SmallGroups}
    \cup {[tmpl |-> t, groups |-> <<g1, g2>>] :
             t \in TwoGroupTemplates, g1 \in SmallGroups, g2 \in Groups}

DimStr(in) ==
    in.tmpl.pre \o GroupText(in.groups[1])
    \o (IF Len(in.groups) = 2 THEN in.tmpl.sep \o GroupText(in.groups[2]) ELSE <<>>)
    \o in.tmpl.post

\* Token groups for parse_simple_dimensions called on its own.
ParseNumbers ==
    {PlainNumber(<<"2">>), PlainNumber(<<"1", ",", "5">>), PlainNumber(<<"0", ".", "5">>)}
    \cup {MixedFraction(whole, ws, num, den) :
             whole \in {<<"1">>, <<"1", "2">>},
             ws \in {<<" ">>, <<" ", " ">>, <<"\t">>},
             num \in {<<"1">>, <<"3">>, <<"1", "1">>},
             den \in {<<"2">>, <<"3">>, <<"4">>, <<"2", "5">>, <<"4", "5">>}}
ParseUnits == {<<>>, <<" ", "i", "n">>, <<"c", "m">>, <<" ", "p", "i", "e", "d", "s">>}
WhichHints == {None, Some(<<>>), Some(<<"h">>), Some(<<" ", "w">>)}

\* Groups of Dimensions for the normalizer called on its own.
DimValues == {<<"0">>, <<"3">>, <<"1", "0">>, <<"1", ".", "5">>}
DimUnits == {Some("inches"), Some("feet"), Some("cm"), None, Some("mm")}
DimGroups ==
    UNION {{[i \in 1..n |-> Dimension(g[i][1], g[i][2], which)] :
               g \in [1..n -> DimValues \X DimUnits], which \in {None, Some(Height)}} :
           n \in 1..MaxDims}

\* Monetary records: at most MaxKeys keys.
Prefixes == {"est_price", "start_price", "price"}
AmountTexts == {<<>>, <<"1", "0", "0", "[", "?", "]">>, <<"a", "b", "c">>,
                <<"a", "b", "c", " ", "[", "?", "]">>}
CurrencyTexts == {"", "pounds", "thalers"}
Items ==
    {<<p \o sfx, v>> : p \in Prefixes, sfx \in {"", "_amount"}, v \in AmountTexts}
    \cup {<<p \o sfx, v>> : p \in Prefixes, sfx \in {"_currency", "_curr"}, v \in CurrencyTexts}
    \cup {<<p \o sfx, "n">> : p \in Prefixes, sfx \in {"_note", "_desc", "_citation"}}

RECURSIVE DataRecords(_)
DataRecords(n) ==
    IF n = 0 THEN {<<>>}
    ELSE LET smaller == DataRecords(n - 1)
         IN  smaller \cup {d @@ (it[1] :> it[2]) : d \in smaller, it \in {x \in Items : TRUE}}

(***************************************************************************)
(* The program: a library without state, called by one thread.  call is   *)
(* the call in progress and its arguments, result what it returned; the    *)
(* caller takes the result and may call again.                             *)
(***************************************************************************)
VARIABLES call, result
vars == <<call, result>>

Idle == [fn |-> "none"]

Init ==
    /\ call = Idle
    /\ result = None

ExtractPhysicalDimensions ==
    /\ call = Idle
    /\ \E in \in DimInputs :
        /\ call' = [fn |-> "extract_physical_dimensions", tmpl |-> in.tmpl.name,
                    groups |-> in.groups, dimstr |-> Some(DimStr(in))]
        /\ result' = extract_physical_dimensions(call'.dimstr)

ExtractPhysicalDimensionsOfNone ==
    /\ call = Idle
    /\ call' = [fn |-> "extract_physical_dimensions", tmpl |-> "none", groups |-> <<>>,
                dimstr |-> None]
    /\ result' = extract_physical_dimensions(None)

ParseSimpleDimensions ==
    /\ call = Idle
    /\ \E n \in ParseNumbers, u \in ParseUnits, which \in WhichHints :
        /\ call' = [fn |-> "parse_simple_dimensions", n |-> n, value |-> Some(n.text \o u),
                    which |-> which]
        /\ result' = parse_simple_dimensions(Some(n.text \o u), which)

\* nd is what the call of normalize_dimension inside returned, ret what
\* normalized_dimension_object returns.
ObjectResult(dimensions, nd) == [nd |-> nd, ret |-> DimensionObject(dimensions, nd)]

NormalizedDimensionObject ==
    /\ call = Idle
    /\ \E dimensions \in DimGroups :
        /\ call' = [fn |-> "normalized_dimension_object", dimensions |-> dimensions]
        /\ result' = ObjectResult(dimensions, normalize_dimension(dimensions))

ExtractMonetaryAmount ==
    /\ call = Idle
    /\ \E data \in DataRecords(MaxKeys) :
        /\ call' = [fn |-> "extract_monetary_amount", data |-> data]
        /\ result' = extract_monetary_amount(data)

Return ==
    /\ call # Idle
    /\ call' = Idle
    /\ result' = None

Next ==
    \/ ExtractPhysicalDimensions
    \/ ExtractPhysicalDimensionsOfNone
    \/ ParseSimpleDimensions
    \/ NormalizedDimensionObject
    \/ ExtractMonetaryAmount
    \/ Return

Spec == Init /\ [][Next]_vars

(***************************************************************************)
(* The properties.                                                         *)
(***************************************************************************)
InExtract == call.fn = "extract_physical_dimensions" /\ call.dimstr.some
InNormalize == call.fn = "normalized_dimension_object"

StrategyOrder == <<"simple_dimensions_cleaner_x2", "french_dimensions_cleaner_x2",
                   "dutch_dimensions_cleaner_x2", "simple_dimensions_cleaner_x1">>

Last(seq) == seq[Len(seq)]

\* C1: dimensions_cleaner calls the strategies in the order plain two-axis,
\* French, Dutch, plain single-axis, stops at the first that yields groups
\* and returns exactly its groups; when none yields it returns None and
\* extract_physical_dimensions yields nothing.
C1_FirstStrategyWins ==
    InExtract =>
        /\ Len(result.calls) \in 1..Len(StrategyOrder)
        /\ \A i \in DOMAIN result.calls : result.calls[i].f = StrategyOrder[i]
        /\ \A i \in 1..(Len(result.calls) - 1) : ~result.calls[i].d.some
        /\ Last(result.calls).d = CallCleaner(StrategyOrder[Len(result.calls)], call.dimstr.val)
        /\ Last(result.calls).d.some => result.dimensions = Last(result.calls).d
        /\ ~Last(result.calls).d.some =>
              /\ Len(result.calls) = Len(StrategyOrder)
              /\ result.dimensions = None
              /\ result.yielded = <<>>
              /\ result.raised = None

\* A string of the form "g1 x g2" whose two-axis match yields nothing and
\* whose first group the single-axis strategy, the last one, then yields.
C1_Witness ==
    /\ InExtract
    /\ call.tmpl = "plain"
    /\ Len(result.calls) = Len(StrategyOrder)
    /\ result.dimensions.some
    /\ Len(result.yielded) = 1

RECURSIVE SumOf(_, _)
\* The sum of the values of the dimensions whose unit is in units.
SumOf(dimensions, units) ==
    IF dimensions = <<>> THEN 0
    ELSE (IF Head(dimensions).unit \in units THEN Float(Head(dimensions).value).val ELSE 0)
         + SumOf(Tail(dimensions), units)

UnitsOf(dimensions) == {dimensions[i].unit : i \in DOMAIN dimensions}

TenFeetThreeInches ==
    <<Dimension(<<"1", "0">>, Some("feet"), None), Dimension(<<"3">>, Some("inches"), None)>>

\* C2: a group of feet and inches only, with a total other than zero,
\* normalizes to inches, 12 x the feet plus the inches, on the group's
\* axis; [10 feet, 3 inches] gives "123.0" labelled "10 feet, 3 inches".
C2_FeetAndInches ==
    /\ (/\ InNormalize
        /\ UnitsOf(call.dimensions) \subseteq {Some("feet"), Some("inches")}
        /\ 12 * SumOf(call.dimensions, {Some("feet")})
             + SumOf(call.dimensions, {Some("inches")}) # 0)
       => /\ result.nd =
               Some(Dimension(FloatStr(12 * SumOf(call.dimensions, {Some("feet")})
                                       + SumOf(call.dimensions, {Some("inches")})),
                              Some("inches"), call.dimensions[1].which))
          /\ result.ret.some /\ result.ret.val.nd = result.nd.val
    /\ (InNormalize /\ call.dimensions = TenFeetThreeInches)
       => result.ret =
            Some([nd |-> Dimension(<<"1", "2", "3", ".", "0">>, Some("inches"), None),
                  label |-> <<"1", "0", " ", "f", "e", "e", "t", ",", " ",
                              "3", " ", "i", "n", "c", "h", "e", "s">>])

C2_Witness ==
    /\ InNormalize
    /\ call.dimensions = TenFeetThreeInches
    /\ result.ret.some

UnitSystem(unit) ==
    CASE unit \in {Some("feet"), Some("inches")} -> "imperial"
      [] unit = Some("cm") -> "metric"
      [] unit = None -> "unknown"
      [] OTHER -> "unrecognized"

SystemsOf(dimensions) == {UnitSystem(dimensions[i].unit) : i \in DOMAIN dimensions}

\* C3: a group whose measurements span more than one unit system fails to
\* normalize, whatever its values.
C3_MixedSystemsFail ==
    (/\ InNormalize
     /\ "unrecognized" \notin SystemsOf(call.dimensions)
     /\ Cardinality(SystemsOf(call.dimensions)) > 1)
    => result.nd = None /\ result.ret = None

NonZeroSums(dimensions) ==
    {u \in {"inches", "cm", "unknown"} :
        CASE u = "inches" -> 12 * SumOf(dimensions, {Some("feet")})
                             + SumOf(dimensions, {Some("inches")}) # 0
          [] u = "cm" -> SumOf(dimensions, {Some("cm")}) # 0
          [] u = "unknown" -> SumOf(dimensions, {None}) # 0}

\* C4: when exactly one of the three sums is not zero, the result has that
\* sum as its value and 'inches', 'cm' or no unit accordingly.
C4_SingleSum ==
    (/\ InNormalize
     /\ "unrecognized" \notin SystemsOf(call.dimensions)
     /\ Cardinality(NonZeroSums(call.dimensions)) = 1)
    => result.nd =
         Some(CASE NonZeroSums(call.dimensions) = {"inches"} ->
                     Dimension(FloatStr(12 * SumOf(call.dimensions, {Some("feet")})
                                        + SumOf(call.dimensions, {Some("inches")})),
                               Some("inches"), Last(call.dimensions).which)
                [] NonZeroSums(call.dimensions) = {"cm"} ->
                     Dimension(FloatStr(SumOf(call.dimensions, {Some("cm")})),
                               Some("cm"), Last(call.dimensions).which)
                [] NonZeroSums(call.dimensions) = {"unknown"} ->
                     Dimension(FloatStr(SumOf(call.dimensions, {None})),
                               None, Last(call.dimensions).which))

\* C5: extract_physical_dimensions never raises.
C5_NeverRaises == call.fn = "extract_physical_dimensions" => result.raised = None

SupportedFractions == {<<<<"1">>, <<"4">>>>, <<<<"1">>, <<"2">>>>, <<<<"3">>, <<"4">>>>}

IsUnsupported(n) == n.frac.some /\ <<n.frac.val.num, n.frac.val.den>> \notin SupportedFractions

Malformed(g) == \E i \in DOMAIN g : IsUnsupported(g[i].n)
WellFormed(g) == \A i \in DOMAIN g : ~g[i].n.frac.some

PatternOf(tmpl) ==
    CASE tmpl \in {"plain", "plain_hw"} -> simple_dimensions_re_x2
      [] tmpl = "french" -> french_dimensions_re
      [] OTHER -> dutch_dimensions_re

\* The record of group g alone: its label, when it parses and normalizes.
ObjectOf(parsed) == IF parsed.some THEN normalized_dimension_object(parsed.val) ELSE None
LabelOf(g) == ObjectOf(parse_simple_dimensions(Some(GroupText(g)), None))

\* C6: when a two-axis pattern matches and one group only holds a malformed
\* token, the other group is still yielded, whichever of the two it is.
C6_OtherGroupYielded ==
    \A bad \in 1..2 :
        (/\ InExtract
         /\ Len(call.groups) = 2
         /\ Malformed(call.groups[bad])
         /\ WellFormed(call.groups[3 - bad])
         /\ LabelOf(call.groups[3 - bad]).some
         /\ ReMatch(PatternOf(call.tmpl), {"d1", "d2"}, call.dimstr.val).some)
        => \E i \in DOMAIN result.yielded :
               result.yielded[i].name = LabelOf(call.groups[3 - bad]).val.label

Present(v) == v.some /\ v.val # <<>>
PresentWhole(v) == v.some /\ v.val # ""

ExpectedPrefix(data) ==
    IF "est_price" \in DOMAIN data THEN "est_price"
    ELSE IF "start_price" \in DOMAIN data THEN "start_price"
    ELSE "price"

ExpectedType(data) ==
    CASE ExpectedPrefix(data) = "est_price" -> "EstimatedPrice"
      [] ExpectedPrefix(data) = "start_price" -> "StartingPrice"
      [] OTHER -> "MonetaryAmount"

\* The value of the first of the two keys the record has, or None.
Selected(data, k1, k2) ==
    IF k1 \in DOMAIN data THEN Some(data[k1])
    ELSE IF k2 \in DOMAIN data THEN Some(data[k2])
    ELSE None

SelectedAmount(data) ==
    Selected(data, ExpectedPrefix(data) \o "_amount", ExpectedPrefix(data))
SelectedCurrency(data) ==
    Selected(data, ExpectedPrefix(data) \o "_currency", ExpectedPrefix(data) \o "_curr")

FamilyKeys(prefix) ==
    {prefix \o sfx : sfx \in {"", "_amount", "_currency", "_curr", "_note", "_desc", "_citation"}}

Restrict(data, keys) == [k \in DOMAIN data \cap keys |-> data[k]]

\* C7: the variant is chosen by the presence of the key est_price, else of
\* start_price, else it is a plain price; every field is read from the keys
\* of the chosen family alone; and nothing is returned exactly when neither
\* the chosen amount nor the chosen currency is present.
C7_VariantByKey ==
    call.fn = "extract_monetary_amount" =>
        /\ (result = None) <=>
              (~Present(SelectedAmount(call.data)) /\ ~PresentWhole(SelectedCurrency(call.data)))
        /\ result.some => result.val.type = ExpectedType(call.data)
        /\ result = extract_monetary_amount(
                        Restrict(call.data, FamilyKeys(ExpectedPrefix(call.data))))

\* A record with both est_price and start_price.
C7_Witness ==
    /\ call.fn = "extract_monetary_amount"
    /\ {"est_price", "start_price"} \subseteq DOMAIN call.data
    /\ result.some
    /\ result.val.type = "EstimatedPrice"

CleanedAmount(text) == Strip(Replace(Replace(text, <<"[", "?", "]">>, <<>>), <<"?">>, <<>>))

\* C8: an amount that is not a number after cleanup gives a record with no
\* numeric value whose display name is the cleaned amount text.
C8_NameIsCleanedText ==
    (/\ call.fn = "extract_monetary_amount"
     /\ Present(SelectedAmount(call.data))
     /\ Float(CleanedAmount(SelectedAmount(call.data).val)) = ValueError)
    => /\ result.some
       /\ result.val.value = None
       /\ result.val.identified_by = Some(CleanedAmount(SelectedAmount(call.data).val))

FirstMarkerIsBreed == StartsWith(Lower(call.dimstr.val), <<"b", "r", "e", "e", "d">>)

AllOnAxis(group, axis) == \A i \in DOMAIN group : group[i].which = Some(axis)

\* C9: when the Dutch pattern yields, every measurement of the first group
\* is on the height axis and every one of the second on the width axis,
\* the other way round when the first marker contains "breed"; and
\* "Hoog. 1 v. 6 d., Breed 2 v. 3 d." gives height 18 inches, width 27.
C9_DutchAxes ==
    /\ (/\ InExtract
        /\ Last(result.calls).f = "dutch_dimensions_cleaner_x2"
        /\ result.dimensions.some)
       => /\ Len(result.dimensions.val) = 2
          /\ AllOnAxis(result.dimensions.val[1], IF FirstMarkerIsBreed THEN Width ELSE Height)
          /\ AllOnAxis(result.dimensions.val[2], IF FirstMarkerIsBreed THEN Height ELSE Width)
    /\ (InExtract /\ call.dimstr.val = DimStr(HoogBreedExample))
       => /\ Len(result.yielded) = 2
          /\ result.yielded[1].type = "Height"
          /\ result.yielded[1].value = <<"1", "8", ".", "0">>
          /\ result.yielded[1].unit = Some("inches")
          /\ result.yielded[2].type = "Width"
          /\ result.yielded[2].value = <<"2", "7", ".", "0">>
          /\ result.yielded[2].unit = Some("inches")

\* A Breed-first string whose first group holds two measurements.
C9_Witness ==
    /\ InExtract
    /\ call.tmpl = "dutch_breedt_hoog"
    /\ result.dimensions.some
    /\ Len(result.dimensions.val[1]) = 2
    /\ Len(result.yielded) = 2

FractionValue(frac) ==
    frac.whole \o (CASE <<frac.num, frac.den>> = <<<<"1">>, <<"4">>>> -> <<".", "2", "5">>
                     [] <<frac.num, frac.den>> = <<<<"1">>, <<"2">>>> -> <<".", "5">>
                     [] <<frac.num, frac.den>> = <<<<"3">>, <<"4">>>> -> <<".", "7", "5">>)

\* C10: a mixed fraction is accepted only when it is 1/4, 1/2 or 3/4, as
\* the whole plus .25, .5 or .75; with any other numerator or denominator
\* the group gives no result.
C10_OnlyQuarters ==
    (call.fn = "parse_simple_dimensions" /\ call.n.frac.some) =>
        /\ IsUnsupported(call.n) => result = None
        /\ (~IsUnsupported(call.n) /\ call.n.frac.val.ws = <<" ">>)
           => /\ result.some
              /\ Len(result.val) = 1
              /\ result.val[1].value = FractionValue(call.n.frac.val)

====
